---- MODULE Spec2Model ----
(***************************************************************************)
(* Model of server/server.py: the telemetry file watcher, the              *)
(* TelemetryStore and the /ws subscriber sessions.                         *)
(*                                                                         *)
(* The program runs on one asyncio event loop.  A coroutine runs without   *)
(* interruption between two points where it really suspends                *)
(* (asyncio.sleep, ws.send_text, asyncio.wait_for); the Store's lock is    *)
(* never held across such a point, so acquiring it never suspends.  Every  *)
(* action below is one such uninterrupted stretch of one coroutine.        *)
(***************************************************************************)
EXTENDS Integers, Sequences, FiniteSets, TLC

\* ------------------------------------------------------------------------
\* Bounds of the model
\* ------------------------------------------------------------------------
NSessions  == 2     \* queues the Store is given
NPeers     == 1     \* websocket connections followed send by send
NCallers   == 1     \* callers holding a result of store.get()
MaxReloads == 2     \* _reload coroutines in flight at once
MaxClock   == 4     \* last wall-clock tick
MaxMtime   == 3     \* last modification time the file gets
MaxSent    == 2     \* messages recorded per session
MaxSeen    == 2     \* reloads in a row counted for one mtime
MaxList    == 3     \* length a caller grows a list to
MaxDocs    == 6     \* documents the producer writes one after the other

\* ------------------------------------------------------------------------
\* Program constants
\* ------------------------------------------------------------------------
QueueMaxSize == 4   \* asyncio.Queue(maxsize=4)
TicksPerSec  == 2   \* resolution of time.time() against int(time.time())

StartClock == TicksPerSec + 1

Sessions == 1..NSessions
Peers    == 1..NPeers
Mtimes   == 0..MaxMtime
Callers  == 1..NCallers
Gens     == 1..(NCallers + 1)

VARIABLES
    now,            \* time.time(), in ticks
    fs_exists,      \* TELEMETRY_PATH.exists()
    fs_content,     \* text of the file
    fs_mtime,       \* st_mtime of the file
    data,           \* store._data: the top-level dict
    heap,           \* the container objects the dicts refer to
    last_update,    \* store.last_update
    file_mtime,     \* store.file_mtime
    listeners,      \* store._listeners
    queues,         \* contents of each session's asyncio.Queue
    created,        \* the queues subscribe() has made
    last_raw,       \* the text the latest call of update() was given
    sup_pc,         \* position of start_watchdog
    observer_alive, \* observer.is_alive()
    pending,        \* _reload coroutines submitted to the loop, not yet run
    sleeping,       \* local mtime of each _reload in asyncio.sleep, oldest first
    reload_updates, \* per observed mtime, the update() calls its reloads made
    file_reads,     \* read_text() calls made by _reload so far
    seen,           \* the mtime the latest stat() returned, and how many
                    \* reloads in a row it was returned to
    pc,             \* position of each websocket_endpoint
    outbox,         \* the text a suspended ws.send_text is sending
    sent,           \* the texts the peer has received
    timeouts,       \* asyncio.TimeoutError raised in each session so far
    ws_open,        \* the peer of each connection is still there
    initial,        \* what became of each session's first send_text
    held            \* the dict a caller got from store.get()

fs_vars      == <<fs_exists, fs_content, fs_mtime>>
store_vars   == <<data, heap, last_update, listeners, queues, created,
                  last_raw>>
watch_vars   == <<sup_pc, observer_alive, pending, sleeping, file_mtime,
                  reload_updates, file_reads, seen>>
session_vars == <<pc, outbox, sent, timeouts, ws_open, initial>>
vars == <<now, fs_vars, store_vars, watch_vars, session_vars, held>>

\* ------------------------------------------------------------------------
\* JSON values.  A value carries its Python type; a dict is a function from
\* its keys.  Inside a stored dict a list is a reference to a heap object.
\* ------------------------------------------------------------------------
JNull      == [t |-> "null", v |-> 0]
JInt(n)    == [t |-> "int", v |-> n]
JFloat(n)  == [t |-> "float", v |-> n]
JStr(s)    == [t |-> "str", v |-> s]
JList(s)   == [t |-> "list", v |-> s]
JDict(d)   == [t |-> "dict", v |-> d]
JRef(g)    == [t |-> "ref", v |-> g]

EmptyDict == [k \in {} |-> JNull]

\* bool(x)
Truthy(x) ==
    CASE x.t = "null"  -> FALSE
      [] x.t = "int"   -> x.v # 0
      [] x.t = "float" -> x.v # 0
      [] x.t = "str"   -> x.v # ""
      [] x.t = "list"  -> x.v # <<>>
      [] x.t = "dict"  -> DOMAIN x.v # {}
      [] OTHER         -> TRUE

\* d.get(k)
DictGet(d, k) == IF k \in DOMAIN d THEN d[k] ELSE JNull

\* d[k] = x
DictSet(d, k, x) == [y \in DOMAIN d \cup {k} |-> IF y = k THEN x ELSE d[y]]

\* len(x) raises TypeError for these
HasLen(x) == x.t \in {"str", "list", "dict"}

\* ------------------------------------------------------------------------
\* The texts the file can hold
\* ------------------------------------------------------------------------
T_EMPTY == ""
T_BLANK == "  "
T_TRUNC == "{\"vehicles\":[1,"
T_ARRAY == "[1,2]"
T_NOTS  == "{\"vehicles\":[1,2],\"lines\":[],\"stations\":[]}"
T_TS0   == "{\"vehicles\":[3],\"timestamp\":0}"
T_TS7   == "{\"vehicles\":[],\"timestamp\":7}"
T_VNUM  == "{\"vehicles\":5,\"timestamp\":7}"
T_TSNUL == "{\"vehicles\":[3],\"timestamp\":null}"
T_NONE  == "<no call yet>"

\* the documents of a producer that counts its writes in timestamp
SeqTexts == <<"{\"timestamp\":1}", "{\"timestamp\":2}", "{\"timestamp\":3}",
              "{\"timestamp\":4}", "{\"timestamp\":5}", "{\"timestamp\":6}",
              "{\"timestamp\":7}">>

SeqIndex(raw) == CHOOSE i \in 1..Len(SeqTexts) : SeqTexts[i] = raw

RawTexts == {T_EMPTY, T_BLANK, T_TRUNC, T_ARRAY, T_NOTS, T_TS0, T_TS7, T_VNUM,
             T_TSNUL}

\* the texts update() is given in the runs of the Store alone
StoreTexts == {T_TRUNC, T_NOTS}

\* the texts the producer writes
FileTexts == {T_BLANK, T_ARRAY, T_NOTS}

\* the texts the producer writes while queues listen: a truncated file, a
\* file of blanks, a document
FeedTexts == {T_EMPTY, T_BLANK, T_NOTS}

\* the texts update() is given while sessions are connected
SessionTexts == {T_NOTS, T_TS7}

\* content.strip()
strip(raw) == IF raw \in {T_EMPTY, T_BLANK} THEN "" ELSE raw

\* json.loads(raw): ok = FALSE stands for JSONDecodeError
json_loads(raw) ==
    CASE raw = T_ARRAY -> [ok |-> TRUE, value |-> JList(<<1, 2>>)]
      [] raw = T_NOTS  -> [ok |-> TRUE, value |-> JDict(
                              ("vehicles" :> JList(<<1, 2>>)) @@
                              ("lines" :> JList(<<>>)) @@
                              ("stations" :> JList(<<>>)))]
      [] raw = T_TS0   -> [ok |-> TRUE, value |-> JDict(
                              ("vehicles" :> JList(<<3>>)) @@
                              ("timestamp" :> JInt(0)))]
      [] raw = T_TS7   -> [ok |-> TRUE, value |-> JDict(
                              ("vehicles" :> JList(<<>>)) @@
                              ("timestamp" :> JInt(7)))]
      [] raw = T_TSNUL -> [ok |-> TRUE, value |-> JDict(
                              ("vehicles" :> JList(<<3>>)) @@
                              ("timestamp" :> JNull))]
      [] raw = T_VNUM  -> [ok |-> TRUE, value |-> JDict(
                              ("vehicles" :> JInt(5)) @@
                              ("timestamp" :> JInt(7)))]
      [] \E i \in 1..Len(SeqTexts) : SeqTexts[i] = raw ->
                          [ok |-> TRUE, value |-> JDict(
                              "timestamp" :> JInt(SeqIndex(raw)))]
      [] OTHER         -> [ok |-> FALSE, value |-> JNull]

\* json.dumps(tree): the text of a dict whose lists are written out
json_dumps(tree) == [json |-> tree]

\* int(time.time())
int_time(t) == t \div TicksPerSec

\* ------------------------------------------------------------------------
\* Objects: a stored dict refers to its lists; dict(d) copies the references
\* ------------------------------------------------------------------------
EmptyCell == [k \in {} |-> <<>>]

\* the dict json.loads built, with its lists placed in heap cell g
Box(tree, g) ==
    [k \in DOMAIN tree |-> IF tree[k].t = "list" THEN JRef(g) ELSE tree[k]]

Cell(tree) ==
    [k \in {y \in DOMAIN tree : tree[y].t = "list"} |-> tree[k].v]

\* the dict with every reference followed, as json.dumps walks it
Deref(d, h) ==
    [k \in DOMAIN d |-> IF d[k].t = "ref" THEN JList(h[d[k].v][k]) ELSE d[k]]

Refs(d) == {d[k].v : k \in {y \in DOMAIN d : d[y].t = "ref"}}

HeldRefs(hs) == UNION {Refs(hs[c]) : c \in Callers}

\* the cell a new document is built in: one that no caller's dict refers
\* to.  The cell of the document being replaced counts as free: it is
\* released by the assignment to self._data unless a caller still has it.
FreshGen(hs) ==
    CHOOSE g \in Gens : /\ g \notin HeldRefs(hs)
                        /\ \A g2 \in Gens : g2 \notin HeldRefs(hs) => g <= g2

\* ------------------------------------------------------------------------
\* TelemetryStore
\* ------------------------------------------------------------------------

\* put_nowait into a queue that gives up its oldest text when it is full
put_nowait_evict(qs, q, item) ==
    IF Len(qs[q]) >= QueueMaxSize
    THEN [qs EXCEPT ![q] = Append(Tail(@), item)]
    ELSE [qs EXCEPT ![q] = Append(@, item)]

\* put_nowait that takes a queue holding maxsize texts for one with room
put_nowait_one_more(qs, q, item) ==
    IF Len(qs[q]) > QueueMaxSize THEN qs
    ELSE [qs EXCEPT ![q] = Append(@, item)]

\* q.put_nowait(item), with QueueFull caught by the caller
put_nowait(qs, q, item) ==
    IF Len(qs[q]) >= QueueMaxSize THEN qs
    ELSE [qs EXCEPT ![q] = Append(@, item)]

\* the loop with QueueFull not caught: it ends at the first full queue
RECURSIVE put_all_until_full(_, _, _)
put_all_until_full(ls, item, qs) ==
    IF ls = <<>> THEN qs
    ELSE IF Len(qs[Head(ls)]) >= QueueMaxSize THEN qs
    ELSE put_all_until_full(Tail(ls), item,
                            [qs EXCEPT ![Head(ls)] = Append(@, item)])

\* for q in list(self._listeners): q.put_nowait(broadcast_raw)
RECURSIVE put_all(_, _, _)
put_all(ls, item, qs) ==
    IF ls = <<>> THEN qs
    ELSE put_all(Tail(ls), item, put_nowait(qs, Head(ls), item))

\* the injection made only when the key is missing
enrich_if_absent(tree, t) ==
    IF "timestamp" \notin DOMAIN tree
    THEN DictSet(tree, "timestamp", JInt(int_time(t)))
    ELSE tree

\* if not data.get("timestamp"): data["timestamp"] = int(time.time())
enrich(tree, t) ==
    IF ~Truthy(DictGet(tree, "timestamp"))
    THEN DictSet(tree, "timestamp", JInt(int_time(t)))
    ELSE tree

CountedKeys == {"vehicles", "lines", "stations"}

\* how update(raw) ends: "JSONDecodeError" is caught inside and update
\* returns; "AttributeError" leaves data.get on a non-dict; "TypeError"
\* leaves len() in the log call, after the store was written
update_outcome(raw) ==
    LET r == json_loads(raw) IN
    IF ~r.ok THEN "JSONDecodeError"
    ELSE IF r.value.t # "dict" THEN "AttributeError"
    ELSE IF \E k \in CountedKeys \cap DOMAIN r.value.v : ~HasLen(r.value.v[k])
         THEN "TypeError"
    ELSE "ok"

update_writes(raw) == update_outcome(raw) \in {"ok", "TypeError"}

\* the text update(raw) fans out when it is called at time t
broadcast_text(raw, t) == json_dumps(enrich(json_loads(raw).value.v, t))

\* update(raw) replacing the snapshot without stamping last_update
update_apply_torn(raw, adv) ==
    LET tree == enrich(json_loads(raw).value.v, now)
        broadcast_raw == json_dumps(tree)
        g == FreshGen(held)
    IN  /\ now' = now + adv
        /\ data' = Box(tree, g)
        /\ heap' = [x \in Gens |->
                      IF x = g THEN Cell(tree)
                      ELSE IF x \in HeldRefs(held) THEN heap[x]
                      ELSE EmptyCell]
        /\ last_update' = last_update
        /\ queues' = put_all(listeners, broadcast_raw, queues)

\* update(raw) from the injection of the timestamp to the end of the
\* fan-out; the clock moves adv ticks between the two calls of time.time()
update_apply(raw, adv) ==
    LET tree == enrich(json_loads(raw).value.v, now)
        broadcast_raw == json_dumps(tree)
        g == FreshGen(held)
    IN  /\ now' = now + adv
        /\ data' = Box(tree, g)
        /\ heap' = [x \in Gens |->
                      IF x = g THEN Cell(tree)
                      ELSE IF x \in HeldRefs(held) THEN heap[x]
                      ELSE EmptyCell]
        /\ last_update' = now + adv
        /\ queues' = put_all(listeners, broadcast_raw, queues)

\* update(raw) stamping last_update before it looks at the text
update_stamp_first(raw, adv) ==
    /\ last_raw' = raw
    /\ IF ~update_writes(raw)
       THEN /\ last_update' = now
            /\ UNCHANGED <<now, data, heap, queues>>
       ELSE update_apply(raw, adv)

\* TelemetryStore.update(raw)
update(raw, adv) ==
    /\ last_raw' = raw
    /\ IF ~update_writes(raw)
       THEN UNCHANGED <<now, data, heap, last_update, queues>>
       ELSE update_apply(raw, adv)

ClockSteps == {a \in {0, 1} : now + a <= MaxClock}

\* TelemetryStore.get(): dict(self._data)
get == [k \in DOMAIN data |-> data[k]]

\* TelemetryStore.subscribe(), the new queue being that of session s
subscribe(s) ==
    /\ s \notin created
    /\ created' = created \cup {s}
    /\ listeners' = Append(listeners, s)
    /\ queues' = [queues EXCEPT ![s] = <<>>]

\* list.pop(0) in the place of list.remove(q)
list_remove_head(ls, q) == IF ls = <<>> THEN ls ELSE Tail(ls)

\* list.remove(q): the first occurrence, ValueError caught when absent
list_remove(ls, q) ==
    IF \E i \in 1..Len(ls) : ls[i] = q
    THEN LET i == CHOOSE j \in 1..Len(ls) :
                     ls[j] = q /\ \A m \in 1..(j - 1) : ls[m] # q
         IN  SubSeq(ls, 1, i - 1) \o SubSeq(ls, i + 1, Len(ls))
    ELSE ls

\* list.pop() in the place of the guarded list.remove(q)
unsubscribe_pop(s) ==
    listeners' = IF listeners = <<>> THEN listeners
                 ELSE SubSeq(listeners, 1, Len(listeners) - 1)

\* TelemetryStore.unsubscribe(q)
unsubscribe(s) == listeners' = list_remove(listeners, s)

Registered(s) == \E i \in 1..Len(listeners) : listeners[i] = s

\* ------------------------------------------------------------------------
\* The environment: the clock, the producer writing the file, the peers
\* ------------------------------------------------------------------------
Tick ==
    /\ now < MaxClock
    /\ now' = now + 1
    /\ UNCHANGED <<fs_vars, store_vars, watch_vars, session_vars, held>>

\* the producer rewrites the file; two writes can fall in one mtime step
FileWrite(raw, m) ==
    /\ m \in {fs_mtime, fs_mtime + 1}
    /\ m >= 1
    /\ m <= MaxMtime
    /\ fs_exists' = TRUE
    /\ fs_content' = raw
    /\ fs_mtime' = m
    /\ UNCHANGED <<now, store_vars, watch_vars, session_vars, held>>

FileRemove ==
    /\ fs_exists
    /\ fs_exists' = FALSE
    /\ fs_content' = T_EMPTY
    /\ UNCHANGED <<fs_mtime, now, store_vars, watch_vars, session_vars, held>>

PeerDisconnect(s) ==
    /\ pc[s] \in {"send_initial", "wait", "send_frame", "send_ping"}
    /\ ws_open[s]
    /\ ws_open' = [ws_open EXCEPT ![s] = FALSE]
    /\ UNCHANGED <<now, fs_vars, store_vars, watch_vars, held,
                   pc, outbox, sent, timeouts, initial>>

\* ------------------------------------------------------------------------
\* start_watchdog and TelemetryFileHandler
\* ------------------------------------------------------------------------

\* start_watchdog up to its first asyncio.sleep: observer.start() and the
\* initial read; an exception of update() other than OSError leaves
\* start_watchdog before its try/finally, with the observer running
StartWatchdog ==
    /\ sup_pc = "start"
    /\ IF fs_exists /\ strip(fs_content) # ""
       THEN /\ \E adv \in ClockSteps : update(fs_content, adv)
            /\ IF update_outcome(fs_content) \in {"AttributeError", "TypeError"}
               THEN sup_pc' = "dead" /\ observer_alive' = TRUE
               ELSE sup_pc' = "polling" /\ observer_alive' = TRUE
       ELSE /\ UNCHANGED <<now, data, heap, last_update, queues, last_raw>>
            /\ sup_pc' = "polling"
            /\ observer_alive' = TRUE
    /\ UNCHANGED <<fs_vars, listeners, created, pending, sleeping, file_mtime,
                   reload_updates, file_reads, seen, session_vars, held>>

\* the observer thread ends while the server runs
ObserverDies ==
    /\ sup_pc = "polling"
    /\ observer_alive
    /\ observer_alive' = FALSE
    /\ UNCHANGED <<now, fs_vars, store_vars, session_vars, held, sup_pc,
                   pending, sleeping, file_mtime, reload_updates, file_reads,
                   seen>>

\* one round of the loop of start_watchdog: asyncio.sleep(1) returns and
\* is_alive() is asked.  The observer is a threading.Thread that line 175
\* has started; start() on a thread that has been started raises
\* RuntimeError, which leaves the loop through the finally clause
SupervisorPoll ==
    /\ sup_pc = "polling"
    /\ IF observer_alive
       THEN UNCHANGED <<sup_pc, observer_alive>>
       ELSE sup_pc' = "dead" /\ observer_alive' = FALSE
    /\ UNCHANGED <<now, fs_vars, store_vars, session_vars, held, pending,
                   sleeping, file_mtime, reload_updates, file_reads, seen>>

\* on_modified for the watched file: run_coroutine_threadsafe(self._reload())
on_modified ==
    /\ observer_alive
    /\ pending + Len(sleeping) < MaxReloads
    /\ pending' = pending + 1
    /\ UNCHANGED <<now, fs_vars, store_vars, session_vars, held, sup_pc,
                   observer_alive, sleeping, file_mtime, reload_updates,
                   file_reads, seen>>

\* the record of the stat() results, after one more that returned mtime
stat_seen(mtime) ==
    IF seen.last = mtime
    THEN [seen EXCEPT !.same = IF @ < MaxSeen THEN @ + 1 ELSE @]
    ELSE [last |-> mtime, same |-> 1]

\* _reload without the comparison with store.file_mtime
ReloadBegin_no_dedupe ==
    /\ pending > 0
    /\ pending' = pending - 1
    /\ IF ~fs_exists
       THEN UNCHANGED <<file_mtime, sleeping, seen>>
       ELSE LET mtime == fs_mtime IN
            /\ seen' = stat_seen(mtime)
            /\ file_mtime' = mtime
            /\ sleeping' = Append(sleeping, mtime)
    /\ UNCHANGED <<now, fs_vars, store_vars, session_vars, held, sup_pc,
                   observer_alive, reload_updates, file_reads>>

\* _reload that does not write store.file_mtime before it sleeps
ReloadBegin_no_store ==
    /\ pending > 0
    /\ pending' = pending - 1
    /\ IF ~fs_exists
       THEN UNCHANGED <<file_mtime, sleeping, seen>>
       ELSE LET mtime == fs_mtime IN
            /\ seen' = stat_seen(mtime)
            /\ IF mtime = file_mtime
               THEN UNCHANGED <<file_mtime, sleeping>>
               ELSE /\ UNCHANGED file_mtime
                    /\ sleeping' = Append(sleeping, mtime)
    /\ UNCHANGED <<now, fs_vars, store_vars, session_vars, held, sup_pc,
                   observer_alive, reload_updates, file_reads>>

\* _reload up to asyncio.sleep: stat, the dedupe check, store.file_mtime
ReloadBegin ==
    /\ pending > 0
    /\ pending' = pending - 1
    /\ IF ~fs_exists
       THEN UNCHANGED <<file_mtime, sleeping, seen>>
       ELSE LET mtime == fs_mtime IN
            /\ seen' = stat_seen(mtime)
            /\ IF mtime = file_mtime
               THEN UNCHANGED <<file_mtime, sleeping>>
               ELSE /\ file_mtime' = mtime
                    /\ sleeping' = Append(sleeping, mtime)
    /\ UNCHANGED <<now, fs_vars, store_vars, session_vars, held, sup_pc,
                   observer_alive, reload_updates, file_reads>>

\* _reload that hands whatever it read to store.update
ReloadResume_no_strip ==
    /\ sleeping # <<>>
    /\ sleeping' = Tail(sleeping)
    /\ IF ~fs_exists
       THEN UNCHANGED <<now, data, heap, last_update, queues, last_raw,
                        reload_updates, file_reads>>
       ELSE /\ file_reads' = file_reads + 1
            /\ \E adv \in ClockSteps : update(fs_content, adv)
            /\ reload_updates' =
                  [reload_updates EXCEPT ![Head(sleeping)] = @ + 1]
    /\ UNCHANGED <<fs_vars, listeners, created, session_vars, held, sup_pc,
                   observer_alive, pending, file_mtime, seen>>

\* _reload after asyncio.sleep: read_text, the blank check, store.update
ReloadResume ==
    /\ sleeping # <<>>
    /\ sleeping' = Tail(sleeping)
    /\ IF ~fs_exists
       THEN UNCHANGED <<now, data, heap, last_update, queues, last_raw,
                        reload_updates, file_reads>>
       ELSE /\ file_reads' = file_reads + 1
            /\ IF strip(fs_content) = ""
               THEN UNCHANGED <<now, data, heap, last_update, queues,
                                last_raw, reload_updates>>
               ELSE /\ \E adv \in ClockSteps : update(fs_content, adv)
                    /\ reload_updates' =
                          [reload_updates EXCEPT ![Head(sleeping)] = @ + 1]
    /\ UNCHANGED <<fs_vars, listeners, created, session_vars, held, sup_pc,
                   observer_alive, pending, file_mtime, seen>>

\* ------------------------------------------------------------------------
\* websocket_endpoint
\* ------------------------------------------------------------------------
NoText == json_dumps(EmptyDict)

\* json.dumps({"type": "ping", "ts": time.time()})
ping_text(t) == json_dumps(("type" :> JStr("ping")) @@ ("ts" :> JFloat(t)))

\* the finally clause, reached from the loop; the coroutine returns and
\* its queue, which nothing refers to any more, is gone with what it held
Close(s) ==
    /\ pc' = [pc EXCEPT ![s] = "closed"]
    /\ outbox' = [outbox EXCEPT ![s] = NoText]
    /\ unsubscribe(s)
    /\ queues' = [queues EXCEPT ![s] = <<>>]

\* the endpoint going to its loop without the first send_text
Connect_no_snapshot(s) ==
    /\ pc[s] = "idle"
    /\ sup_pc # "start"
    /\ subscribe(s)
    /\ ws_open' = [ws_open EXCEPT ![s] = TRUE]
    /\ pc' = [pc EXCEPT ![s] = "wait"]
    /\ initial' = [initial EXCEPT ![s] = "skipped"]
    /\ UNCHANGED <<now, fs_vars, watch_vars, held, data, heap, last_update,
                   last_raw, sent, timeouts, outbox>>

\* accept, subscribe, get, and the start of the first send_text
Connect(s) ==
    /\ pc[s] = "idle"
    /\ sup_pc # "start"
    /\ subscribe(s)
    /\ ws_open' = [ws_open EXCEPT ![s] = TRUE]
    /\ LET current == get IN
       IF Truthy(JDict(current))
       THEN /\ outbox' = [outbox EXCEPT ![s] = json_dumps(Deref(current, heap))]
            /\ pc' = [pc EXCEPT ![s] = "send_initial"]
            /\ UNCHANGED initial
       ELSE /\ pc' = [pc EXCEPT ![s] = "wait"]
            /\ initial' = [initial EXCEPT ![s] = "skipped"]
            /\ UNCHANGED outbox
    /\ UNCHANGED <<now, fs_vars, watch_vars, held, data, heap, last_update,
                   last_raw, sent, timeouts>>

\* the first send_text returns, or raises an Exception that is passed over
InitialSent(s) ==
    /\ pc[s] = "send_initial"
    /\ pc' = [pc EXCEPT ![s] = "wait"]
    /\ outbox' = [outbox EXCEPT ![s] = NoText]
    /\ IF ws_open[s]
       THEN /\ sent' = [sent EXCEPT ![s] = Append(@, outbox[s])]
            /\ initial' = [initial EXCEPT ![s] = "sent"]
       ELSE /\ initial' = [initial EXCEPT ![s] = "failed"]
            /\ UNCHANGED sent
    /\ UNCHANGED <<now, fs_vars, store_vars, watch_vars, held, timeouts,
                   ws_open>>

\* CancelledError in the first send_text: it is no Exception and the
\* try/finally has not been entered
InitialCancelled(s) ==
    /\ pc[s] = "send_initial"
    /\ pc' = [pc EXCEPT ![s] = "closed"]
    /\ outbox' = [outbox EXCEPT ![s] = NoText]
    /\ initial' = [initial EXCEPT ![s] = "cancelled"]
    /\ UNCHANGED <<now, fs_vars, store_vars, watch_vars, held, sent,
                   timeouts, ws_open>>

\* a queue that hands out the text put last
TakeFrame_newest(s) ==
    /\ pc[s] = "wait"
    /\ queues[s] # <<>>
    /\ Len(sent[s]) < MaxSent
    /\ queues' = [queues EXCEPT ![s] = SubSeq(@, 1, Len(@) - 1)]
    /\ outbox' = [outbox EXCEPT ![s] = queues[s][Len(queues[s])]]
    /\ pc' = [pc EXCEPT ![s] = "send_frame"]
    /\ UNCHANGED <<now, fs_vars, watch_vars, held, data, heap, last_update,
                   last_raw, listeners, created, sent, timeouts, ws_open,
                   initial>>

\* queue.get() returns a text and send_text(raw) starts
TakeFrame(s) ==
    /\ pc[s] = "wait"
    /\ queues[s] # <<>>
    /\ Len(sent[s]) < MaxSent
    /\ queues' = [queues EXCEPT ![s] = Tail(@)]
    /\ outbox' = [outbox EXCEPT ![s] = Head(queues[s])]
    /\ pc' = [pc EXCEPT ![s] = "send_frame"]
    /\ UNCHANGED <<now, fs_vars, watch_vars, held, data, heap, last_update,
                   last_raw, listeners, created, sent, timeouts, ws_open,
                   initial>>

\* the TimeoutError passed over without a ping
Timeout_silent(s) ==
    /\ pc[s] = "wait"
    /\ queues[s] = <<>>
    /\ Len(sent[s]) < MaxSent
    /\ timeouts[s] < MaxSent
    /\ timeouts' = [timeouts EXCEPT ![s] = @ + 1]
    /\ UNCHANGED <<now, fs_vars, store_vars, watch_vars, held, sent, ws_open,
                   initial, outbox, pc>>

\* wait_for raises TimeoutError and the send_text of the ping starts
Timeout(s) ==
    /\ pc[s] = "wait"
    /\ queues[s] = <<>>
    /\ Len(sent[s]) < MaxSent
    /\ timeouts' = [timeouts EXCEPT ![s] = @ + 1]
    /\ outbox' = [outbox EXCEPT ![s] = ping_text(now)]
    /\ pc' = [pc EXCEPT ![s] = "send_ping"]
    /\ UNCHANGED <<now, fs_vars, store_vars, watch_vars, held, sent, ws_open,
                   initial>>

\* send_text of a frame or of a ping returns: back to wait_for
LoopSent(s) ==
    /\ pc[s] \in {"send_frame", "send_ping"}
    /\ ws_open[s]
    /\ sent' = [sent EXCEPT ![s] = Append(@, outbox[s])]
    /\ outbox' = [outbox EXCEPT ![s] = NoText]
    /\ pc' = [pc EXCEPT ![s] = "wait"]
    /\ UNCHANGED <<now, fs_vars, store_vars, watch_vars, held, timeouts,
                   ws_open, initial>>

\* send_text of a frame or of a ping raises: except ..., then finally
LoopSendFailed(s) ==
    /\ pc[s] \in {"send_frame", "send_ping"}
    /\ ~ws_open[s]
    /\ Close(s)
    /\ UNCHANGED <<now, fs_vars, watch_vars, held, data, heap, last_update,
                   last_raw, created, sent, timeouts, ws_open, initial>>

\* CancelledError inside the try: finally
LoopCancelled(s) ==
    /\ pc[s] \in {"wait", "send_frame", "send_ping"}
    /\ Close(s)
    /\ UNCHANGED <<now, fs_vars, watch_vars, held, data, heap, last_update,
                   last_raw, created, sent, timeouts, ws_open, initial>>

\* ------------------------------------------------------------------------
\* The system
\* ------------------------------------------------------------------------
\* the Store, the handler and the endpoints as the module creates them
InitProgram ==
    /\ now = StartClock
    /\ data = EmptyDict
    /\ heap = [g \in Gens |-> EmptyCell]
    /\ last_update = 0
    /\ file_mtime = 0
    /\ listeners = <<>>
    /\ queues = [s \in Sessions |-> <<>>]
    /\ created = {}
    /\ last_raw = T_NONE
    /\ pending = 0
    /\ sleeping = <<>>
    /\ reload_updates = [m \in Mtimes |-> 0]
    /\ file_reads = 0
    /\ seen = [last |-> 0, same |-> 0]
    /\ pc = [s \in Sessions |-> "idle"]
    /\ outbox = [s \in Sessions |-> NoText]
    /\ sent = [s \in Sessions |-> <<>>]
    /\ timeouts = [s \in Sessions |-> 0]
    /\ ws_open = [s \in Sessions |-> FALSE]
    /\ initial = [s \in Sessions |-> "none"]
    /\ held = [c \in Callers |-> EmptyDict]

\* process start: the file may be there already
Init ==
    /\ InitProgram
    /\ fs_exists \in BOOLEAN
    /\ fs_content \in (IF fs_exists THEN FileTexts ELSE {T_EMPTY})
    /\ fs_mtime = (IF fs_exists THEN 1 ELSE 0)
    /\ sup_pc = "start"
    /\ observer_alive = FALSE

\* process start without a file
InitStore ==
    /\ InitProgram
    /\ fs_exists = FALSE
    /\ fs_content = T_EMPTY
    /\ fs_mtime = 0
    /\ sup_pc = "start"
    /\ observer_alive = FALSE

\* the server serving: start_watchdog has found no file and is polling
InitServing ==
    /\ InitProgram
    /\ fs_exists = FALSE
    /\ fs_content = T_EMPTY
    /\ fs_mtime = 0
    /\ sup_pc = "polling"
    /\ observer_alive = TRUE

Next ==
    \/ Tick
    \/ \E raw \in FileTexts, m \in Mtimes : FileWrite(raw, m)
    \/ FileRemove
    \/ StartWatchdog
    \/ ObserverDies
    \/ SupervisorPoll
    \/ on_modified
    \/ ReloadBegin
    \/ ReloadResume
    \/ \E s \in Sessions : Connect(s)
    \/ \E s \in Sessions : InitialSent(s)
    \/ \E s \in Sessions : InitialCancelled(s)
    \/ \E s \in Sessions : TakeFrame(s)
    \/ \E s \in Sessions : Timeout(s)
    \/ \E s \in Sessions : LoopSent(s)
    \/ \E s \in Sessions : LoopSendFailed(s)
    \/ \E s \in Sessions : LoopCancelled(s)
    \/ \E s \in Sessions : PeerDisconnect(s)

Spec == Init /\ [][Next]_vars

\* ------------------------------------------------------------------------
\* The Store driven through its own methods: update(raw) with any text,
\* subscribe(), unsubscribe(q), and the owner of a queue taking from it
\* ------------------------------------------------------------------------
StoreUpdate(raw) ==
    /\ \E adv \in ClockSteps : update(raw, adv)
    /\ UNCHANGED <<fs_vars, watch_vars, session_vars, held, listeners, created>>

StoreSubscribe(s) ==
    /\ subscribe(s)
    /\ UNCHANGED <<now, fs_vars, watch_vars, session_vars, held, data, heap,
                   last_update, last_raw>>

StoreUnsubscribe(s) ==
    /\ unsubscribe(s)
    /\ UNCHANGED <<now, fs_vars, watch_vars, session_vars, held, data, heap,
                   last_update, last_raw, queues, created>>

\* queue.get() by the owner of a queue, who takes from it until it
\* unsubscribes
QueueGet(s) ==
    /\ Registered(s)
    /\ queues[s] # <<>>
    /\ queues' = [queues EXCEPT ![s] = Tail(@)]
    /\ UNCHANGED <<now, fs_vars, watch_vars, session_vars, held, data, heap,
                   last_update, last_raw, listeners, created>>

NextStore ==
    \/ Tick
    \/ \E raw \in StoreTexts : StoreUpdate(raw)
    \/ \E s \in Sessions : StoreSubscribe(s)
    \/ \E s \in Sessions : StoreUnsubscribe(s)
    \/ \E s \in Sessions : QueueGet(s)

SpecStore == InitStore /\ [][NextStore]_vars

\* the file, the watcher and the Store, with queues that only listen
NextWatch ==
    \/ Tick
    \/ \E raw \in FileTexts, m \in Mtimes : FileWrite(raw, m)
    \/ FileRemove
    \/ StartWatchdog
    \/ on_modified
    \/ ReloadBegin
    \/ ReloadResume

SpecWatch == Init /\ [][NextWatch]_vars

\* the file, the watcher and the Store, with queues registered and read
NextFeed ==
    \/ \E raw \in FeedTexts, m \in Mtimes : FileWrite(raw, m)
    \/ StartWatchdog
    \/ on_modified
    \/ ReloadBegin
    \/ ReloadResume
    \/ \E s \in Peers : StoreSubscribe(s)
    \/ \E s \in Peers : QueueGet(s)

SpecFeed == Init /\ [][NextFeed]_vars

\* the sessions and the Store, update() being given the documents of a
\* producer that counts its writes, each document once and in order.
\* The next document is the one after the document stored.
SeqNext == IF data = EmptyDict THEN 1 ELSE data["timestamp"].v + 1

\* the clock does not move on during these updates
SeqUpdate ==
    /\ SeqNext <= MaxDocs
    /\ SeqNext <= Len(SeqTexts)
    /\ update(SeqTexts[SeqNext], 0)
    /\ UNCHANGED <<fs_vars, watch_vars, session_vars, held, listeners, created>>

NextOrder ==
    \/ SeqUpdate
    \/ \E s \in Peers : Connect(s)
    \/ \E s \in Peers : InitialSent(s)
    \/ \E s \in Peers : InitialCancelled(s)
    \/ \E s \in Peers : TakeFrame(s)
    \/ \E s \in Peers : Timeout(s)
    \/ \E s \in Peers : LoopSent(s)
    \/ \E s \in Peers : LoopSendFailed(s)
    \/ \E s \in Peers : LoopCancelled(s)
    \/ \E s \in Peers : PeerDisconnect(s)

SpecOrder == InitServing /\ [][NextOrder]_vars

\* the watcher of a server that serves, with an observer that can die
NextSupervise ==
    \/ Tick
    \/ \E raw \in FileTexts, m \in Mtimes : FileWrite(raw, m)
    \/ FileRemove
    \/ ObserverDies
    \/ SupervisorPoll
    \/ on_modified
    \/ ReloadBegin
    \/ ReloadResume

SpecSupervise == InitServing /\ [][NextSupervise]_vars

\* the sessions and the Store, update() being called as the watcher calls
\* it: at any time, with a text that is not blank
NextSession ==
    \/ Tick
    \/ \E raw \in SessionTexts : StoreUpdate(raw)
    \/ \E s \in Peers : Connect(s)
    \/ \E s \in Peers : InitialSent(s)
    \/ \E s \in Peers : InitialCancelled(s)
    \/ \E s \in Peers : TakeFrame(s)
    \/ \E s \in Peers : Timeout(s)
    \/ \E s \in Peers : LoopSent(s)
    \/ \E s \in Peers : LoopSendFailed(s)
    \/ \E s \in Peers : LoopCancelled(s)
    \/ \E s \in Peers : PeerDisconnect(s)

SpecSession == InitServing /\ [][NextSession]_vars

\* ------------------------------------------------------------------------
\* A caller of store.get() and what it can do to the dict it is given
\* ------------------------------------------------------------------------
CallerGet(c) ==
    /\ held[c] = EmptyDict
    /\ held' = [held EXCEPT ![c] = get]
    /\ UNCHANGED <<now, fs_vars, store_vars, watch_vars, session_vars>>

\* d["timestamp"] = 0 on the dict returned
CallerSetKey(c) ==
    /\ held[c] # EmptyDict
    /\ held[c]["timestamp"] # JInt(0)
    /\ held' = [held EXCEPT ![c] = DictSet(@, "timestamp", JInt(0))]
    /\ UNCHANGED <<now, fs_vars, store_vars, watch_vars, session_vars>>

\* d["vehicles"].append(9) on the dict returned
CallerAppend(c) ==
    /\ "vehicles" \in DOMAIN held[c]
    /\ held[c]["vehicles"].t = "ref"
    /\ LET g == held[c]["vehicles"].v IN
       /\ Len(heap[g]["vehicles"]) < MaxList
       /\ heap' = [heap EXCEPT ![g]["vehicles"] = Append(@, 9)]
    /\ UNCHANGED <<now, fs_vars, watch_vars, session_vars, held, data,
                   last_update, last_raw, listeners, queues, created>>

\* the caller lets go of the dict; lists nothing refers to are gone
CallerDrop(c) ==
    /\ held[c] # EmptyDict
    /\ held' = [held EXCEPT ![c] = EmptyDict]
    /\ heap' = [g \in Gens |->
                  IF g \in Refs(data) \cup HeldRefs(held') THEN heap[g]
                  ELSE EmptyCell]
    /\ UNCHANGED <<now, fs_vars, watch_vars, session_vars, data,
                   last_update, last_raw, listeners, queues, created>>

NextCaller ==
    \/ \E raw \in SessionTexts : StoreUpdate(raw)
    \/ \E c \in Callers : CallerGet(c)
    \/ \E c \in Callers : CallerSetKey(c)
    \/ \E c \in Callers : CallerAppend(c)
    \/ \E c \in Callers : CallerDrop(c)

SpecCaller == InitStore /\ [][NextCaller]_vars

\* the Store decoding every text, with subscribers that keep up: update()
\* is called when they have taken what was queued
DrainedUpdate(raw) ==
    /\ \A s \in Sessions : queues[s] = <<>>
    /\ StoreUpdate(raw)

NextDecode ==
    \/ Tick
    \/ \E raw \in RawTexts : DrainedUpdate(raw)
    \/ \E s \in Sessions : StoreSubscribe(s)
    \/ \E s \in Sessions : QueueGet(s)

SpecDecode == InitStore /\ [][NextDecode]_vars

\* ------------------------------------------------------------------------
\* Properties
\* ------------------------------------------------------------------------

\* the text of the stored snapshot
SnapshotText == json_dumps(Deref(data, heap))

Last(q) == q[Len(q)]

IsPing(m) == /\ DOMAIN m.json = {"type", "ts"}
             /\ m.json["type"] = JStr("ping")
             /\ m.json["ts"].t = "float"

Elems(q) == {q[i] : i \in 1..Len(q)}

\* C1: one successful update puts exactly one copy of its frame, the text
\* of the snapshot it stored, at the end of every registered queue that had
\* room, puts nothing into a registered queue that held 4 texts, touches no
\* other queue and leaves the listener list as it was.
C1_FanOutOnce ==
    [][\A raw \in StoreTexts :
          (StoreUpdate(raw) /\ update_writes(raw)) =>
             /\ listeners' = listeners
             /\ \A s \in Sessions :
                   IF Registered(s) /\ Len(queues[s]) < 4
                   THEN queues'[s] = Append(queues[s], SnapshotText')
                   ELSE queues'[s] = queues[s]]_vars

C1_Witness ==
    \E s, o \in Sessions :
        /\ Registered(s) /\ Registered(o)
        /\ Len(queues[s]) = 4
        /\ Last(queues[s]) # SnapshotText
        /\ queues[o] # <<>>
        /\ Last(queues[o]) = SnapshotText

\* C2: an update that finds a registered queue holding 4 texts leaves that
\* queue as it is, still replaces the snapshot by its own document, and
\* gives every other queue what a fan-out without the full queue gives it.
C2_FullIsolated ==
    [][\A raw \in StoreTexts : \A s \in Sessions :
          (/\ Registered(s) /\ Len(queues[s]) = 4
           /\ update_writes(raw) /\ StoreUpdate(raw)) =>
             /\ queues'[s] = queues[s]
             /\ Deref(get, heap)' = enrich(json_loads(raw).value.v, now)
             /\ \A o \in Sessions \ {s} :
                   queues'[o] = put_all(list_remove(listeners, s),
                                        SnapshotText', queues)[o]]_vars

C2_Witness ==
    \E s, o \in Sessions :
        /\ Registered(s) /\ Registered(o)
        /\ Len(queues[s]) = 4
        /\ SnapshotText \notin Elems(queues[s])
        /\ Len(queues[o]) \in 1..3
        /\ Last(queues[o]) = SnapshotText
        /\ last_raw = T_NOTS

\* C3: update() with a text that does not parse changes neither the
\* snapshot nor last_update, and no queue.
C3_MalformedNoChange ==
    [][\A raw \in StoreTexts :
          (StoreUpdate(raw) /\ ~json_loads(raw).ok) =>
             UNCHANGED <<data, heap, last_update, queues, listeners>>]_vars

C3_Witness ==
    /\ last_raw = T_TRUNC
    /\ data # EmptyDict
    /\ last_update > 0
    /\ \E s \in Sessions : Registered(s) /\ queues[s] # <<>>

\* C8: for a queue registered before an update and still registered after
\* it, the update gives it what a fan-out to that queue alone gives it: the
\* frame, unless its own 4 places are taken.  subscribe() and unsubscribe()
\* for another queue change neither its registration nor its content.
C8_OwnQueueOnly ==
    [][/\ \A raw \in StoreTexts :
             (update_writes(raw) /\ StoreUpdate(raw)) =>
                \A s \in Sessions : Registered(s) =>
                   /\ Registered(s)'
                   /\ queues'[s] = put_nowait(queues, s, SnapshotText')[s]
       /\ \A o \in Sessions :
             (StoreSubscribe(o) \/ StoreUnsubscribe(o)) =>
                \A s \in Sessions \ {o} : Registered(s) =>
                   /\ Registered(s)'
                   /\ queues'[s] = queues[s]]_vars

C8_Witness ==
    \E s, o \in Sessions :
        /\ Registered(s)
        /\ o \in created /\ ~Registered(o)
        /\ queues[o] # <<>> /\ Last(queues[o]) # SnapshotText
        /\ queues[s] # <<>> /\ Last(queues[s]) = SnapshotText
        /\ listeners = <<s>>

\* C9: after a successful update with the decoded document D the snapshot
\* has D's keys and the key timestamp; every key but timestamp has D's
\* value; timestamp is D's own when D's is a non-zero number, and else the
\* whole seconds of the clock read in that update; last_update is the
\* clock of that update and did not go back; the frame queued is the text
\* of that snapshot.
C9_Enriched ==
    [][\A raw \in RawTexts :
          (DrainedUpdate(raw) /\ update_outcome(raw) = "ok") =>
             LET D == json_loads(raw).value.v
                 S == Deref(data, heap)'
                 own == /\ "timestamp" \in DOMAIN D
                        /\ D["timestamp"] \notin {JNull, JInt(0)}
             IN  /\ DOMAIN S = DOMAIN D \cup {"timestamp"}
                 /\ \A k \in DOMAIN D \ {"timestamp"} : S[k] = D[k]
                 /\ IF own
                    THEN S["timestamp"] = D["timestamp"]
                    ELSE /\ S["timestamp"].t = "int"
                         /\ S["timestamp"].v >= now \div TicksPerSec
                         /\ S["timestamp"].v <= now' \div TicksPerSec
                 /\ last_update' = now'
                 /\ last_update' >= last_update
                 /\ \A s \in Sessions :
                       Registered(s) => queues'[s] = <<json_dumps(S)>>]_vars

C9_Witness ==
    /\ last_raw \in {T_TS0, T_TSNUL}
    /\ data["timestamp"] = JInt(last_update \div TicksPerSec)
    /\ last_update > StartClock
    /\ \E s \in Sessions : Registered(s) /\ queues[s] = <<SnapshotText>>

Count(q, x) == Cardinality({i \in 1..Len(q) : q[i] = x})

\* C4: a reload whose stat() returns the modification time that the reload
\* before it was given returns at the dedupe check: it does not go to
\* sleep, reads nothing and calls no update(), also while the earlier
\* reload still sleeps; and the reloads given one modification time call
\* update() at most once between them.
C4_Dedupe ==
    /\ [][(/\ ReloadBegin
           /\ fs_exists
           /\ seen.same >= 1
           /\ seen.last = fs_mtime) =>
              UNCHANGED <<sleeping, file_mtime, file_reads, reload_updates,
                          data, heap, last_update, queues>>]_vars
    /\ [](\A m \in Mtimes : reload_updates[m] + Count(sleeping, m) <= 1)

C4_Witness ==
    /\ seen.same >= 2
    /\ sleeping = <<seen.last>>
    /\ pending = 0
    /\ reload_updates[seen.last] = 0

\* C5 as claimed: a session that has ended has no queue in the listener
\* list.
C5_ClosedIsDeregistered ==
    \A s \in Peers : pc[s] = "closed" => ~Registered(s)

\* the snapshot texts the Store can hold in the runs with sessions
SnapshotTexts ==
    {broadcast_text(raw, t) : raw \in SessionTexts, t \in StartClock..MaxClock}

\* C6: a connecting session that finds a snapshot starts by sending the
\* text of that snapshot, and that text is the first the peer receives; it
\* takes nothing from its queue before; a connecting session that finds
\* the Store empty sends nothing and goes to wait on its queue.
C6_SnapshotFirst ==
    /\ [][\A s \in Peers :
            (pc[s] = "idle" /\ pc'[s] # "idle") =>
               /\ sent'[s] = <<>>
               /\ IF data # EmptyDict
                  THEN /\ pc'[s] = "send_initial"
                       /\ outbox'[s] = SnapshotText
                  ELSE /\ pc'[s] = "wait"
                       /\ outbox'[s] = NoText]_vars
    /\ [][\A s \in Peers :
            (pc[s] = "send_initial" /\ pc'[s] # "send_initial") =>
               /\ sent[s] = <<>>
               /\ Len(queues'[s]) >= Len(queues[s])
               /\ pc'[s] \in {"wait", "closed"}
               /\ (pc'[s] = "wait" /\ ws_open[s]) => sent'[s] = <<outbox[s]>>]_vars
    /\ [](\A s \in Peers :
            initial[s] = "sent" => sent[s] # <<>> /\ sent[s][1] \in SnapshotTexts)

C6_Witness ==
    \E s \in Peers :
        /\ initial[s] = "sent"
        /\ pc[s] = "wait"
        /\ sent[s] = <<SnapshotText>>
        /\ timeouts[s] = 0

Pings(q) == Cardinality({i \in 1..Len(q) : IsPing(q[i])})

\* C7: the pings a session has sent, with the one it is sending, are as
\* many as its waits that timed out, a ping whose send failed or was
\* cancelled apart; a ping carries the clock; every text sent is a ping or
\* a snapshot text; no queue holds a ping; and a session that found the
\* Store empty, with no update since, has after one timeout sent one ping
\* and nothing else.
C7_Keepalive ==
    \A s \in Peers :
        /\ pc[s] \in {"idle", "send_initial", "wait", "send_frame"} =>
              Pings(sent[s]) = timeouts[s]
        /\ pc[s] = "send_ping" =>
              /\ Pings(sent[s]) + 1 = timeouts[s]
              /\ IsPing(outbox[s])
              /\ outbox[s].json["ts"].v <= now
        /\ pc[s] = "closed" =>
              Pings(sent[s]) \in {timeouts[s] - 1, timeouts[s]}
        /\ \A i \in 1..Len(sent[s]) :
              IsPing(sent[s][i]) \/ sent[s][i] \in SnapshotTexts
        /\ \A o \in Sessions : \A i \in 1..Len(queues[o]) :
              ~IsPing(queues[o][i])
        /\ (/\ initial[s] = "skipped" /\ last_raw = T_NONE
            /\ timeouts[s] = 1 /\ pc[s] = "wait") =>
              Len(sent[s]) = 1 /\ IsPing(sent[s][1])

C7_Witness ==
    \E s \in Peers :
        /\ initial[s] = "skipped"
        /\ last_raw = T_NONE
        /\ timeouts[s] = 1
        /\ pc[s] = "wait"
        /\ Len(sent[s]) = 1
        /\ IsPing(sent[s][1])

\* C10 as claimed: nothing a caller does to the dict get() returned, to a
\* key of it or to a list in it, changes the document the Store holds.
C10_GetIsolated ==
    [][\A c \in Callers :
          (CallerSetKey(c) \/ CallerAppend(c)) =>
             Deref(get, heap)' = Deref(get, heap)]_vars

\* C11: unsubscribe(q) leaves the listener list without q and with every
\* other queue where it was, in the same order; called for a queue that is
\* not in the list (removed before, or never registered) it changes
\* nothing; it never touches what any queue holds.
C11_UnsubscribeIdempotent ==
    [][\A s \in Sessions :
          StoreUnsubscribe(s) =>
             /\ ~Registered(s)'
             /\ listeners' = SelectSeq(listeners, LAMBDA x : x # s)
             /\ \A o \in Sessions \ {s} : Registered(o)' = Registered(o)
             /\ ~Registered(s) => listeners' = listeners
             /\ queues' = queues]_vars

C11_Witness ==
    \E s, o \in Sessions :
        /\ s \in created /\ ~Registered(s)
        /\ queues[s] # <<>>
        /\ listeners = <<o>>
        /\ queues[o] # <<>>
        /\ Len(queues[o]) > Len(queues[s])

\* C12 as claimed: the step in which a send_text fails, be it the send of
\* the initial snapshot, of a frame or of a ping, ends the session with
\* its queue out of the listener list, and leaves the registration and the
\* queue of every other session as they were.
C12_SendFailureTerminates ==
    [][\A s \in Peers :
          ((InitialSent(s) /\ ~ws_open[s]) \/ LoopSendFailed(s)) =>
             /\ pc'[s] = "closed"
             /\ ~Registered(s)'
             /\ \A o \in Sessions \ {s} :
                   /\ Registered(o)' = Registered(o)
                   /\ queues'[o] = queues[o]]_vars

\* C13 as claimed: the round of the supervising loop that finds the
\* observer dead leaves the observer alive again and the loop running.
C13_WatcherRestarted ==
    [][(SupervisorPoll /\ ~observer_alive) =>
          (observer_alive' /\ sup_pc' = "polling")]_vars

\* C14 as claimed: whatever text the file has held, at the startup read or
\* at a reload, start_watchdog has not ended and, once it is in its loop,
\* the observer runs.
C14_NoInputFatal ==
    /\ sup_pc # "dead"
    /\ sup_pc = "polling" => observer_alive

\* C15 as claimed: a reload cycle in which stat() or read_text() raises
\* OSError leaves snapshot, last_update, file_mtime and every queue as the
\* cycle found them.  A cycle that went to sleep found file_mtime different
\* from the modification time it observed, the head of sleeping; when it is
\* the only cycle past the dedupe check, nothing else has written
\* file_mtime since.
C15_IOErrorNoOp ==
    /\ [][(ReloadBegin /\ ~fs_exists) =>
             UNCHANGED <<data, heap, last_update, file_mtime, queues,
                         sleeping>>]_vars
    /\ [][(ReloadResume /\ ~fs_exists /\ Len(sleeping) = 1) =>
             /\ UNCHANGED <<data, heap, last_update, queues>>
             /\ file_mtime' # Head(sleeping)]_vars

\* the update() calls made by reloads so far
RECURSIVE SumTo(_, _)
SumTo(f, n) == IF n < 0 THEN 0 ELSE f[n] + SumTo(f, n - 1)

\* C16: a reload, or the startup read, that reads an empty text or only
\* blanks does not call update(): the snapshot, last_update and every
\* queue stay as they were, and start_watchdog goes on to its loop.
C16_BlankAbandoned ==
    /\ [][(fs_exists /\ strip(fs_content) = "" /\ ReloadResume) =>
             /\ UNCHANGED <<data, heap, last_update, queues, last_raw,
                            reload_updates>>
             /\ file_reads' = file_reads + 1]_vars
    /\ [][(fs_exists /\ strip(fs_content) = "" /\ StartWatchdog) =>
             /\ UNCHANGED <<data, heap, last_update, queues, last_raw>>
             /\ sup_pc' = "polling"]_vars

C16_Witness ==
    /\ fs_exists
    /\ fs_content \in {T_EMPTY, T_BLANK}
    /\ file_mtime = fs_mtime
    /\ sleeping = <<>>
    /\ file_reads = 2
    /\ SumTo(reload_updates, MaxMtime) = 1
    /\ last_raw = T_NOTS
    /\ \E s \in Peers : Registered(s) /\ queues[s] = <<SnapshotText>>

\* the modification times the file has had up to the one stored
MtimesUpTo(m) == {x \in Mtimes : 0 < x /\ x <= m}

\* C17 as claimed: a reload that starts while an earlier one is in its
\* delay is absorbed by it, whatever modification time it observes: it
\* starts no delay of its own, so that at most one reload at a time is on
\* its way to read the file.
C17_BurstOneReload ==
    /\ [][(ReloadBegin /\ sleeping # <<>>) =>
             UNCHANGED <<sleeping, file_mtime>>]_vars
    /\ [](Len(sleeping) <= 1)

\* C17, amended: a reload that starts while an earlier one is in its delay
\* and observes the modification time of that one starts no delay, reads
\* nothing and calls no update(); the reloads in their delay have observed
\* different modification times; and the reloads that have read the file
\* or are on their way to read it are at most as many as the modification
\* times the file has had.
C17_BurstPerMtime ==
    /\ [][(/\ ReloadBegin /\ fs_exists /\ sleeping # <<>>
           /\ fs_mtime = Last(sleeping)) =>
              UNCHANGED <<sleeping, file_mtime, file_reads, reload_updates,
                          last_raw, data, heap, last_update, queues>>]_vars
    /\ [](\A i, j \in 1..Len(sleeping) : i # j => sleeping[i] # sleeping[j])
    /\ [](file_reads + Len(sleeping) <= Cardinality(MtimesUpTo(file_mtime)))

C17_Witness ==
    /\ seen.same = MaxSeen
    /\ Len(sleeping) = 1
    /\ Head(sleeping) = fs_mtime
    /\ file_reads = 0
    /\ fs_exists
    /\ strip(fs_content) # ""

\* the number of the update a snapshot text belongs to, for the documents
\* of the producer that counts its writes
FrameSeq(m) == m.json["timestamp"].v

\* C18 as claimed: when the latest update was denied to a session's queue
\* (the queue ends with the frame of an older update), the next frame the
\* session takes and sends is at least as recent as the first update
\* denied, the one after the last frame queued.
C18_NextSentNotOlder ==
    [][\A s \in Peers :
          (/\ TakeFrame(s)
           /\ FrameSeq(Last(queues[s])) < FrameSeq(SnapshotText)) =>
              FrameSeq(outbox'[s]) >= FrameSeq(Last(queues[s])) + 1]_vars

\* C18, amended: an update that finds a session's queue full leaves the
\* queue as it is, and everything in the queue, which the session sends
\* next, is older than the frame denied; an update that finds room puts
\* the frame of the snapshot it stored, newer than every update before it,
\* at the end; so a queue holds frames of ever later updates, none later
\* than the Store's, and the first frame queued after a drop is newer than
\* the frame dropped.
C18_LatestWins ==
    /\ [][(last_raw' # last_raw /\ SeqUpdate) =>
             \A s \in Peers : Registered(s) =>
                IF Len(queues[s]) = 4
                THEN /\ queues'[s] = queues[s]
                     /\ \A i \in 1..Len(queues[s]) :
                           FrameSeq(queues[s][i]) < FrameSeq(SnapshotText')
                ELSE /\ queues'[s] = Append(queues[s], SnapshotText')
                     /\ data # EmptyDict =>
                           FrameSeq(SnapshotText') > FrameSeq(SnapshotText)]_vars
    /\ [](\A s \in Peers : \A i, j \in 1..Len(queues[s]) :
            /\ i < j => FrameSeq(queues[s][i]) < FrameSeq(queues[s][j])
            /\ FrameSeq(queues[s][i]) <= FrameSeq(SnapshotText))

C18_Witness ==
    \E s \in Peers :
        /\ Registered(s)
        /\ sent[s] # <<>>
        /\ Len(queues[s]) >= 2
        /\ Last(queues[s]) = SnapshotText
        /\ \E i \in 1..(Len(queues[s]) - 1) :
              FrameSeq(queues[s][i + 1]) > FrameSeq(queues[s][i]) + 1

\* C19: the Store holds either the empty document with last_update 0, or
\* the whole enriched document of one update() that wrote, with the
\* last_update that same call stamped; snapshot and last_update change in
\* one step of update() and in no other step; get() returns the keys and
\* values of that one document.
C19_SnapshotWhole ==
    /\ [](\/ data = EmptyDict /\ last_update = 0
          \/ \E raw \in RawTexts : \E t \in StartClock..MaxClock :
                /\ update_writes(raw)
                /\ Deref(data, heap) = enrich(json_loads(raw).value.v, t)
                /\ last_update \in {t, t + 1})
    /\ [][(Deref(data, heap)' # Deref(data, heap) \/ last_update' # last_update) =>
             /\ update_writes(last_raw')
             /\ Deref(data, heap)' = enrich(json_loads(last_raw').value.v, now)
             /\ last_update' = now']_vars
    /\ [](Deref(get, heap) = Deref(data, heap))

C19_Witness ==
    /\ last_raw \in {T_TRUNC, T_ARRAY}
    /\ data # EmptyDict
    /\ "timestamp" \in DOMAIN data
    /\ data["timestamp"] = JInt(int_time(last_update))
    /\ last_update > StartClock

\* the snapshot texts among the texts a peer received
Snapshots(q) == SelectSeq(q, LAMBDA m : ~IsPing(m))

\* C20: the step that registers a session's queue also reads the snapshot
\* it sends first, so the queue is empty then and no update falls between
\* the two; the snapshots a peer has received, the one being sent and the
\* frames queued for it are, in this order, of ever later updates: the
\* initial snapshot is older than every frame taken from the queue, and
\* nothing is sent twice or out of order.
C20_SentInOrder ==
    /\ [][\A s \in Peers :
            Connect(s) =>
               /\ Registered(s)' /\ queues'[s] = <<>>
               /\ UNCHANGED <<data, heap, last_update>>
               /\ data # EmptyDict => outbox'[s] = SnapshotText]_vars
    /\ [](\A s \in Peers :
            LET sending == IF pc[s] \in {"send_initial", "send_frame"}
                           THEN <<outbox[s]>> ELSE <<>>
                all == Snapshots(sent[s]) \o sending \o queues[s]
            IN  \A i, j \in 1..Len(all) :
                   i < j => FrameSeq(all[i]) < FrameSeq(all[j]))

C20_Witness ==
    \E s \in Peers :
        /\ initial[s] = "sent"
        /\ Len(sent[s]) = 2
        /\ ~IsPing(sent[s][2])
        /\ FrameSeq(sent[s][2]) > FrameSeq(sent[s][1])
        /\ queues[s] # <<>>
====
